---- MODULE Spec2Model ----
(***************************************************************************)
(* BitReader<E, R> of endio_bit (src/read.rs): bit-level reading on top    *)
(* of a byte source, under big-endian (BE) or little-endian (LE) bit       *)
(* numbering.                                                              *)
(*                                                                         *)
(* The wrapped source `inner` is an in-memory byte sequence `data` with a  *)
(* read position; every call into it may also fail with an I/O error.      *)
(* The shift primitives of crate::endian are modelled from their           *)
(* description, as total 8-bit shifts.                                     *)
(***************************************************************************)
EXTENDS Integers, Sequences, FiniteSets, TLC

\* ------------------------------------------------------------------ bounds
MaxLen == 3        \* longest source modelled, in bytes
MaxBuf == 2        \* longest caller buffer handed to the bulk read
MaxCount == 9      \* largest count handed to read_bits (8 is the last legal one)

SrcBytes == {171, 84}         \* 0xAB, 0x54: the bytes a source may hold
BufBytes == {42}              \* 0x2A: what a caller's buffer may hold before a read

VARIABLES
    E,            \* the BitEndianness parameter: "BE" or "LE"
    data,         \* the bytes of the wrapped source
    inner,        \* the wrapped source's read position (bytes consumed so far)
    bit_offset,   \* BitReader.bit_offset
    bit_buffer,   \* BitReader.bit_buffer
    last,         \* the last call: its name, arguments, outcome and the state before it
    fresh,        \* TRUE while every call since new() was a successful read_bit
    bits,         \* while fresh: the booleans read_bit has returned, in order
    delivered     \* bits handed to the caller since new(); -1 when they are not
                  \* counted, and once align() was called

vars == <<E, data, inner, bit_offset, bit_buffer, last, fresh, bits, delivered>>

\* ------------------------------------------------------- 8-bit arithmetic
Pow2(n) == IF n = 0 THEN 1 ELSE IF n = 1 THEN 2 ELSE IF n = 2 THEN 4
           ELSE IF n = 3 THEN 8 ELSE IF n = 4 THEN 16 ELSE IF n = 5 THEN 32
           ELSE IF n = 6 THEN 64 ELSE IF n = 7 THEN 128 ELSE 256

Bit(b, i) == (b \div Pow2(i)) % 2

\* u8 `&`
BitAnd(a, b) ==
    LET t(i) == IF Bit(a, i) = 1 /\ Bit(b, i) = 1 THEN Pow2(i) ELSE 0
    IN t(0) + t(1) + t(2) + t(3) + t(4) + t(5) + t(6) + t(7)

\* u8 `|`
BitOr(a, b) ==
    LET t(i) == IF Bit(a, i) = 1 \/ Bit(b, i) = 1 THEN Pow2(i) ELSE 0
    IN t(0) + t(1) + t(2) + t(3) + t(4) + t(5) + t(6) + t(7)

\* u8 shifts by 0..8, bits that fall off are dropped
Shl(b, n) == (b * Pow2(n)) % 256
Shr(b, n) == b \div Pow2(n)

\* ------------------------------------------------ crate::endian (E = BE | LE)
shift_msb(e, val, by) == IF e = "BE" THEN Shl(val, by) ELSE Shr(val, by)

shift_lsb(e, val, by) == IF e = "BE" THEN Shr(val, by) ELSE Shl(val, by)

align_right(e, val, count) == IF e = "BE" THEN val ELSE Shr(val, 8 - count)

\* ------------------------------------------------------------ the source
\* inner.read_exact(&mut temp) with a one-byte temp, on a source holding d
inner_read_exact_on(d, pos, fail) ==
    IF fail THEN [err |-> "ioerr", byte |-> 0, pos |-> pos]
    ELSE IF pos >= Len(d) THEN [err |-> "eof", byte |-> 0, pos |-> pos]
    ELSE [err |-> "ok", byte |-> d[pos + 1], pos |-> pos + 1]

inner_read_exact(pos, fail) == inner_read_exact_on(data, pos, fail)

\* inner.read(buf) producing k bytes: the first k positions of buf are overwritten
inner_read(pos, buf, k) ==
    [buf |-> [i \in 1..Len(buf) |-> IF i <= k THEN data[pos + i] ELSE buf[i]],
     pos |-> pos + k]

\* the counts a read of a buffer of length n may produce at position pos
ReadCounts(pos, n) ==
    LET m == IF n < Len(data) - pos THEN n ELSE Len(data) - pos
    IN IF m = 0 THEN {0} ELSE 1..m

\* ------------------------------------------------------------ BitReader
\* A reader value: the fields of the struct, `inner` being the source position.
Reader(i, o, b) == [inner |-> i, bit_offset |-> o, bit_buffer |-> b]

self == Reader(inner, bit_offset, bit_buffer)

new == Reader(0, 0, 0)

is_aligned(s) == s.bit_offset = 0

\* align that forgets to reset bit_offset
align_no_reset(s) == [s EXCEPT !.bit_buffer = 0]

\* align that gives the partial byte back to the source
align_unread(s) ==
    [s EXCEPT !.bit_offset = 0, !.bit_buffer = 0,
              !.inner = IF s.bit_offset > 0 THEN @ - 1 ELSE @]

align(s) == [s EXCEPT !.bit_offset = 0, !.bit_buffer = 0]

\* The accessors hand out the wrapped source; `res` is the position it is at.
get_ref(s) == [self |-> s, outcome |-> "ok", bit |-> FALSE, res |-> s.inner, reads |-> 0]

\* get_mut without its assertion
get_mut_no_assert(s) ==
    [self |-> s, outcome |-> "ok", bit |-> FALSE, res |-> s.inner, reads |-> 0]

get_mut(s) ==
    IF ~is_aligned(s)
    THEN [self |-> s, outcome |-> "panic", bit |-> FALSE, res |-> 0, reads |-> 0]
    ELSE [self |-> s, outcome |-> "ok", bit |-> FALSE, res |-> s.inner, reads |-> 0]

get_mut_unchecked(s) ==
    [self |-> s, outcome |-> "ok", bit |-> FALSE, res |-> s.inner, reads |-> 0]

into_inner(s) == [self |-> s, outcome |-> "ok", bit |-> FALSE, res |-> s.inner, reads |-> 0]

fill_buffer_on(d, s, fail) ==
    LET r == inner_read_exact_on(d, s.inner, fail)
    IN IF r.err # "ok" THEN [err |-> r.err, self |-> s]
       ELSE [err |-> "ok", self |-> [s EXCEPT !.bit_buffer = r.byte, !.inner = r.pos]]

fill_buffer(s, fail) == fill_buffer_on(data, s, fail)

\* A call's result: the reader afterwards, the outcome ("ok", "eof", "ioerr",
\* "panic"), the value returned and the number of calls made into the source.
Ret(s, outcome, bit, res, reads) ==
    [self |-> s, outcome |-> outcome, bit |-> bit, res |-> res, reads |-> reads]

\* read_bit with the one-bit mask moved the wrong way
read_bit_mask_msb(s, fault) ==
    LET f == IF is_aligned(s) THEN fill_buffer(s, fault = 1) ELSE [err |-> "ok", self |-> s]
        n == IF is_aligned(s) THEN 1 ELSE 0
        t == f.self
        val == BitAnd(t.bit_buffer, shift_msb(E, shift_msb(E, 255, 7), t.bit_offset)) # 0
    IN IF f.err # "ok" THEN Ret(f.self, f.err, FALSE, 0, n)
       ELSE Ret([t EXCEPT !.bit_offset = (t.bit_offset + 1) % 8], "ok", val, 0, n)

\* read_bit advancing bit_offset without the wrap to 0
read_bit_no_wrap(s, fault) ==
    LET f == IF is_aligned(s) THEN fill_buffer(s, fault = 1) ELSE [err |-> "ok", self |-> s]
        n == IF is_aligned(s) THEN 1 ELSE 0
        t == f.self
        val == BitAnd(t.bit_buffer, shift_lsb(E, shift_msb(E, 255, 7), t.bit_offset)) # 0
    IN IF f.err # "ok" THEN Ret(f.self, f.err, FALSE, 0, n)
       ELSE Ret([t EXCEPT !.bit_offset = t.bit_offset + 1], "ok", val, 0, n)

\* read_bit of a BitReader<e, _> over a source holding d.
\* fault = n: the n-th call into the source made by this operation fails (0: none)
read_bit_on(e, d, s, fault) ==
    LET f == IF is_aligned(s) THEN fill_buffer_on(d, s, fault = 1)
             ELSE [err |-> "ok", self |-> s]
        n == IF is_aligned(s) THEN 1 ELSE 0
        t == f.self
        val == BitAnd(t.bit_buffer, shift_lsb(e, shift_msb(e, 255, 7), t.bit_offset)) # 0
    IN IF f.err # "ok" THEN Ret(f.self, f.err, FALSE, 0, n)
       ELSE Ret([t EXCEPT !.bit_offset = (t.bit_offset + 1) % 8], "ok", val, 0, n)

read_bit(s, fault) == read_bit_on(E, data, s, fault)

\* The body of read_bits with four slips switched on one at a time:
\*   noOr:      the bits of the second byte are not OR-ed in
\*   earlyOff:  bit_offset is advanced before the second fetch
\*   lateCheck: the count assertion comes after the first fetch
\*   eager:     the second byte is fetched as soon as the span reaches the boundary
read_bits_variant(s, count, fault, noOr, earlyOff, lateCheck, eager) ==
    IF ~lateCheck /\ ~(count <= 8) THEN Ret(s, "panic", FALSE, 0, 0)
    ELSE
    LET f1 == IF is_aligned(s) THEN fill_buffer(s, fault = 1) ELSE [err |-> "ok", self |-> s]
        n1 == IF is_aligned(s) THEN 1 ELSE 0
        t == f1.self
        start == t.bit_offset
        end == start + count
        res0 == shift_msb(E, t.bit_buffer, start)
        cross == end > 8 \/ (eager /\ end = 8)
        f2 == IF cross THEN fill_buffer(t, fault = n1 + 1) ELSE [err |-> "ok", self |-> t]
        n2 == IF cross THEN n1 + 1 ELSE n1
        u == f2.self
        res1 == IF cross /\ ~noOr
                THEN BitOr(res0, shift_lsb(E, u.bit_buffer, 8 - start)) ELSE res0
        res2 == shift_lsb(E, res1, 8 - count)
        res3 == align_right(E, res2, count)
    IN IF f1.err # "ok" THEN Ret(f1.self, f1.err, FALSE, 0, n1)
       ELSE IF ~(count <= 8) THEN Ret(f1.self, "panic", FALSE, 0, n1)
       ELSE IF f2.err # "ok"
            THEN Ret(IF earlyOff THEN [u EXCEPT !.bit_offset = end % 8] ELSE u,
                     f2.err, FALSE, 0, n2)
       ELSE Ret([u EXCEPT !.bit_offset = end % 8], "ok", FALSE, res3, n2)

read_bits_no_or(s, count, fault) == read_bits_variant(s, count, fault, TRUE, FALSE, FALSE, FALSE)

read_bits_early_offset(s, count, fault) == read_bits_variant(s, count, fault, FALSE, TRUE, FALSE, FALSE)

read_bits_late_check(s, count, fault) == read_bits_variant(s, count, fault, FALSE, FALSE, TRUE, FALSE)

read_bits_eager(s, count, fault) == read_bits_variant(s, count, fault, FALSE, FALSE, FALSE, TRUE)

\* read_bits without the final align_right
read_bits_on_no_align_right(e, d, s, count, fault) ==
    IF ~(count <= 8) THEN Ret(s, "panic", FALSE, 0, 0)
    ELSE
    LET f1 == IF is_aligned(s) THEN fill_buffer_on(d, s, fault = 1)
              ELSE [err |-> "ok", self |-> s]
        n1 == IF is_aligned(s) THEN 1 ELSE 0
        t == f1.self
        start == t.bit_offset
        end == start + count
        res0 == shift_msb(e, t.bit_buffer, start)
        f2 == IF end > 8 THEN fill_buffer_on(d, t, fault = n1 + 1)
              ELSE [err |-> "ok", self |-> t]
        n2 == IF end > 8 THEN n1 + 1 ELSE n1
        u == f2.self
        res1 == IF end > 8 THEN BitOr(res0, shift_lsb(e, u.bit_buffer, 8 - start)) ELSE res0
        res2 == shift_lsb(e, res1, 8 - count)
        res3 == res2
    IN IF f1.err # "ok" THEN Ret(f1.self, f1.err, FALSE, 0, n1)
       ELSE IF f2.err # "ok" THEN Ret(f2.self, f2.err, FALSE, 0, n2)
       ELSE Ret([u EXCEPT !.bit_offset = end % 8], "ok", FALSE, res3, n2)

\* read_bits of a BitReader<e, _> over a source holding d
read_bits_on(e, d, s, count, fault) ==
    IF ~(count <= 8) THEN Ret(s, "panic", FALSE, 0, 0)
    ELSE
    LET f1 == IF is_aligned(s) THEN fill_buffer_on(d, s, fault = 1)
              ELSE [err |-> "ok", self |-> s]
        n1 == IF is_aligned(s) THEN 1 ELSE 0
        t == f1.self
        start == t.bit_offset
        end == start + count
        res0 == shift_msb(e, t.bit_buffer, start)
        f2 == IF end > 8 THEN fill_buffer_on(d, t, fault = n1 + 1)
              ELSE [err |-> "ok", self |-> t]
        n2 == IF end > 8 THEN n1 + 1 ELSE n1
        u == f2.self
        res1 == IF end > 8 THEN BitOr(res0, shift_lsb(e, u.bit_buffer, 8 - start)) ELSE res0
        res2 == shift_lsb(e, res1, 8 - count)
        res3 == align_right(e, res2, count)
    IN IF f1.err # "ok" THEN Ret(f1.self, f1.err, FALSE, 0, n1)
       ELSE IF f2.err # "ok" THEN Ret(f2.self, f2.err, FALSE, 0, n2)
       ELSE Ret([u EXCEPT !.bit_offset = end % 8], "ok", FALSE, res3, n2)

read_bits(s, count, fault) == read_bits_on(E, data, s, count, fault)

\* The body of read with three slips switched on one at a time:
\*   noReturn:  the aligned early return is missing
\*   realign:   an unaligned read resets bit_offset
\*   stuckPrev: last_byte is not advanced inside the loop
read_variant(s, buf, k, fail, noReturn, realign, stuckPrev) ==
    LET r == inner_read(s.inner, buf, k)
        t == [s EXCEPT !.inner = r.pos]
        n == Len(buf)
        prev(i) == IF i = 1 \/ stuckPrev THEN t.bit_buffer ELSE r.buf[i - 1]
        shifted == [i \in 1..n |->
                      BitOr(shift_msb(E, prev(i), t.bit_offset),
                            shift_lsb(E, r.buf[i], 8 - t.bit_offset))]
        last_byte == IF n = 0 THEN t.bit_buffer ELSE r.buf[n]
    IN IF fail THEN [self |-> s, outcome |-> "ioerr", count_read |-> 0, buf |-> buf]
       ELSE IF is_aligned(t) /\ ~noReturn
            THEN [self |-> t, outcome |-> "ok", count_read |-> k, buf |-> r.buf]
       ELSE [self |-> [t EXCEPT !.bit_buffer = last_byte,
                                !.bit_offset = IF realign THEN 0 ELSE @],
             outcome |-> "ok", count_read |-> k, buf |-> shifted]

read_no_return(s, buf, k, fail) == read_variant(s, buf, k, fail, TRUE, FALSE, FALSE)

read_realign(s, buf, k, fail) == read_variant(s, buf, k, fail, FALSE, TRUE, FALSE)

read_stuck_prev(s, buf, k, fail) == read_variant(s, buf, k, fail, FALSE, FALSE, TRUE)

\* <BitReader as Read>::read; k is what the source produces, fail its I/O error.
\* Returns the reader, the outcome, count_read and the caller's buffer afterwards.
read(s, buf, k, fail) ==
    LET r == inner_read(s.inner, buf, k)
        t == [s EXCEPT !.inner = r.pos]
        n == Len(buf)
        prev(i) == IF i = 1 THEN t.bit_buffer ELSE r.buf[i - 1]
        shifted == [i \in 1..n |->
                      BitOr(shift_msb(E, prev(i), t.bit_offset),
                            shift_lsb(E, r.buf[i], 8 - t.bit_offset))]
        last_byte == IF n = 0 THEN t.bit_buffer ELSE r.buf[n]
    IN IF fail THEN [self |-> s, outcome |-> "ioerr", count_read |-> 0, buf |-> buf]
       ELSE IF is_aligned(t)
            THEN [self |-> t, outcome |-> "ok", count_read |-> k, buf |-> r.buf]
       ELSE [self |-> [t EXCEPT !.bit_buffer = last_byte],
             outcome |-> "ok", count_read |-> k, buf |-> shifted]

\* --------------------------------------------------------- state machine
Sources == UNION {[1..n -> SrcBytes] : n \in 0..MaxLen}
Buffers == UNION {[1..n -> BufBytes] : n \in 0..MaxBuf}

\* The record kept of a call.
CallRec(op, pre, count, fault, r, buf, bufAfter, k, wasFresh, nbits, alignFrom) ==
    [op |-> op, pre |-> pre, count |-> count, fault |-> fault,
     outcome |-> r.outcome, bit |-> r.bit, res |-> r.res, reads |-> r.reads,
     buf |-> buf, bufAfter |-> bufAfter, k |-> k,
     wasFresh |-> wasFresh, nbits |-> nbits, alignFrom |-> alignFrom]

\* alignFrom: -1 when the call just before this one was not align(), 1 when it
\* was an align() that dropped a partial byte, 0 when it was an align() of an
\* aligned reader
Call(op, pre, count, fault, r, buf, bufAfter, k, wasFresh, nbits) ==
    CallRec(op, pre, count, fault, r, buf, bufAfter, k, wasFresh, nbits,
            IF last.op # "align" THEN -1 ELSE IF is_aligned(last.pre) THEN 0 ELSE 1)

InitReader ==
    /\ E \in {"BE", "LE"}
    /\ data \in Sources
    /\ inner = new.inner
    /\ bit_offset = new.bit_offset
    /\ bit_buffer = new.bit_buffer
    /\ last = CallRec("new", new, 0, 0, Ret(new, "ok", FALSE, 0, 0), <<>>, <<>>, 0,
                       TRUE, 0, -1)
    /\ fresh = TRUE
    /\ bits = <<>>

Init == InitReader /\ delivered = -1

\* The same reader with the bits handed to the caller counted.
InitCounting == InitReader /\ delivered = 0

\* A panic unwinds the caller and into_inner consumes the reader.
Running == last.outcome # "panic" /\ last.op # "into_inner"

\* n more bits were handed to the caller by a call with the given outcome
Deliver(outcome, n) ==
    delivered' = IF delivered < 0 THEN -1
                 ELSE IF outcome = "ok" THEN delivered + n ELSE delivered

Install(s) ==
    /\ inner' = s.inner
    /\ bit_offset' = s.bit_offset
    /\ bit_buffer' = s.bit_buffer
    /\ UNCHANGED <<E, data>>

ReadBit ==
    /\ Running
    /\ \E fault \in 0..1 :
         \E r \in {read_bit(self, fault)} :
            /\ Install(r.self)
            /\ last' = Call("read_bit", self, 1, fault, r, <<>>, <<>>, 0, fresh, Len(bits))
            /\ fresh' = (fresh /\ r.outcome = "ok")
            /\ bits' = IF fresh' THEN Append(bits, r.bit) ELSE <<>>
            /\ Deliver(r.outcome, 1)

ReadBits ==
    /\ Running
    /\ \E count \in 0..MaxCount, fault \in 0..1 :
         \E r \in {read_bits(self, count, fault)} :
            /\ Install(r.self)
            /\ last' = Call("read_bits", self, count, fault, r, <<>>, <<>>, 0, fresh, Len(bits))
            /\ fresh' = FALSE
            /\ bits' = <<>>
            /\ Deliver(r.outcome, count)

Read ==
    /\ Running
    /\ \E buf \in Buffers, fail \in BOOLEAN :
         \E k \in ReadCounts(inner, Len(buf)) :
           \E r \in {read(self, buf, k, fail)} :
              /\ Install(r.self)
              /\ last' = Call("read", self, Len(buf), IF fail THEN 1 ELSE 0,
                              Ret(r.self, r.outcome, FALSE, r.count_read, 1),
                              buf, r.buf, IF fail THEN 0 ELSE k, fresh, Len(bits))
              /\ fresh' = FALSE
              /\ bits' = <<>>
              /\ Deliver(r.outcome, 8 * r.count_read)

Align ==
    /\ Running
    /\ Install(align(self))
    /\ last' = Call("align", self, 0, 0, Ret(align(self), "ok", FALSE, 0, 0),
                    <<>>, <<>>, 0, fresh, Len(bits))
    /\ fresh' = FALSE
    /\ bits' = <<>>
    /\ delivered' = -1

\* A call that hands out the source: get_ref, get_mut, get_mut_unchecked, into_inner
Access(op, r) ==
    /\ Running
    /\ Install(r.self)
    /\ last' = Call(op, self, 0, 0, r, <<>>, <<>>, 0, fresh, Len(bits))
    /\ fresh' = FALSE
    /\ bits' = <<>>
    /\ UNCHANGED delivered

GetRef == Access("get_ref", get_ref(self))

GetMut == Access("get_mut", get_mut(self))

GetMutUnchecked == Access("get_mut_unchecked", get_mut_unchecked(self))

IntoInner == Access("into_inner", into_inner(self))

Next ==
    \/ ReadBit \/ ReadBits \/ Read \/ Align
    \/ GetRef \/ GetMut \/ GetMutUnchecked \/ IntoInner

Spec == Init /\ [][Next]_vars

SpecCounting == InitCounting /\ [][Next]_vars

TypeOK ==
    /\ E \in {"BE", "LE"}
    /\ inner \in 0..Len(data)
    /\ bit_offset \in 0..7
    /\ bit_buffer \in 0..255

\* ------------------------------------------------------------ properties
\* n successive read_bit calls from reader s, none failing by injection:
\* the reader afterwards, the booleans returned, and whether all succeeded.
RECURSIVE BitRun(_, _)
BitRun(s, n) ==
    IF n = 0 THEN [self |-> s, bits |-> <<>>, ok |-> TRUE]
    ELSE LET r == read_bit(s, 0)
         IN IF r.outcome # "ok" THEN [self |-> r.self, bits |-> <<>>, ok |-> FALSE]
            ELSE LET rest == BitRun(r.self, n - 1)
                 IN [self |-> rest.self, bits |-> <<r.bit>> \o rest.bits, ok |-> rest.ok]

\* The low `count` bits of a byte as booleans in reading order:
\* big-endian from the highest of them down, little-endian from bit 0 up.
BitsOf(e, res, count) ==
    [i \in 1..count |-> Bit(res, IF e = "BE" THEN count - i ELSE i - 1) = 1]

\* Eight booleans put back into a byte: big-endian the first is the most
\* significant bit, little-endian the first is the least significant.
Assemble(e, bs) ==
    LET w(i) == IF bs[i] THEN Pow2(IF e = "BE" THEN 8 - i ELSE i - 1) ELSE 0
    IN w(1) + w(2) + w(3) + w(4) + w(5) + w(6) + w(7) + w(8)

\* C1: on a fresh reader over B, every one of the first 8*|B| read_bit calls
\* succeeds (the source not failing), and each group of 8 returned bits,
\* reassembled in reading order under the reader's convention, is the
\* corresponding byte of B.
C1_BitByBitReproducesSource ==
    /\ fresh =>
         /\ Len(bits) <= 8 * Len(data)
         /\ \A g \in 1..(Len(bits) \div 8) :
              Assemble(E, SubSeq(bits, 8 * g - 7, 8 * g)) = data[g]
    /\ (last.op = "read_bit" /\ last.wasFresh /\ last.fault = 0
          /\ last.nbits < 8 * Len(data)) => last.outcome = "ok"

C1_Witness == fresh /\ Len(data) >= 2 /\ Len(bits) = 8 * Len(data)

\* C2: after read_bits(count), count in 0..8, on an aligned reader with a byte
\* left, the complementary read_bits(8 - count) succeeds too, the two calls
\* consume exactly that one byte, and their bits in reading order are the
\* bits 8 read_bit calls would have returned.
C2_ComplementaryReadBits ==
    (last.op = "read_bits" /\ last.count <= 8 /\ last.fault = 0
       /\ is_aligned(last.pre) /\ last.pre.inner < Len(data)) =>
        LET second == read_bits(self, 8 - last.count, 0)
            eight == BitRun(last.pre, 8)
        IN /\ last.outcome = "ok"
           /\ second.outcome = "ok"
           /\ second.self.inner = last.pre.inner + 1
           /\ BitsOf(E, last.res, last.count) \o BitsOf(E, second.res, 8 - last.count)
                = eight.bits

\* C3: read_bits(count), count in 1..8, from any bit_offset with enough bytes
\* left, returns the bits count read_bit calls would return, in the low count
\* bits and nothing above them, and leaves bit_offset, bit_buffer and the
\* source position as those read_bit calls would.
C3_ReadBitsIsRepeatedReadBit ==
    (last.op = "read_bits" /\ last.count \in 1..8 /\ last.fault = 0
       /\ BitRun(last.pre, last.count).ok) =>
        LET run == BitRun(last.pre, last.count)
        IN /\ last.outcome = "ok"
           /\ last.res < Pow2(last.count)
           /\ BitsOf(E, last.res, last.count) = run.bits
           /\ self = run.self

C3_Witness ==
    /\ last.op = "read_bits" /\ last.outcome = "ok"
    /\ last.pre.bit_offset > 0
    /\ last.pre.bit_offset + last.count > 8

\* C4: read_bits(0) returns 0 without calling into the source and without
\* moving the source position, aligned or not.
C4_ReadZeroBitsNoIO ==
    (last.op = "read_bits" /\ last.count = 0) =>
        /\ last.outcome = "ok"
        /\ last.res = 0
        /\ last.reads = 0
        /\ inner = last.pre.inner

\* C5: a read_bit or read_bits whose byte fetch fails returns that error and
\* leaves bit_offset and bit_buffer as they were; after a failed second-byte
\* fetch the bits left in the lookahead byte can still be read.
C5_FailedFetchKeepsCursor ==
    (last.op \in {"read_bit", "read_bits"}) =>
        /\ (last.fault \in 1..last.reads) => last.outcome = "ioerr"
        /\ (last.outcome \in {"eof", "ioerr"}) =>
             /\ bit_offset = last.pre.bit_offset
             /\ bit_buffer = last.pre.bit_buffer
             /\ bit_offset > 0 => BitRun(self, 8 - bit_offset).ok

C5_Witness ==
    /\ last.op = "read_bits" /\ last.outcome \in {"eof", "ioerr"}
    /\ last.pre.bit_offset > 0
    /\ last.pre.bit_offset + last.count > 8

\* C6: read_bits(count) with count > 8 panics, in every reader state and over
\* any source, before calling into the source and before any field changes.
C6_TooManyBitsPanicsFirst ==
    (last.op = "read_bits" /\ last.count > 8) =>
        /\ last.outcome = "panic"
        /\ last.reads = 0
        /\ self = last.pre

C6_Witness ==
    /\ last.op = "read_bits" /\ last.count > 8
    /\ is_aligned(last.pre) /\ last.pre.inner = Len(data)

\* C7: an unaligned bulk read in which the source produced k bytes leaves
\* every buffer position beyond the k-th as it was before the call.
C7_UnfilledTailUntouched ==
    (last.op = "read" /\ last.outcome = "ok" /\ ~is_aligned(last.pre)) =>
        \A i \in (last.k + 1)..Len(last.buf) : last.bufAfter[i] = last.buf[i]

\* C8: after an unaligned bulk read in which the source produced k bytes,
\* bit_buffer is the k-th byte the source produced, or unchanged when k = 0.
C8_BitBufferIsLastSourceByte ==
    (last.op = "read" /\ last.outcome = "ok" /\ ~is_aligned(last.pre)) =>
        bit_buffer = IF last.k >= 1 THEN data[last.pre.inner + last.k]
                     ELSE last.pre.bit_buffer

\* C9: an aligned bulk read returns the count and the bytes the source itself
\* produced, positions beyond them untouched, and changes neither bit_offset
\* nor bit_buffer.
C9_AlignedReadIsPassthrough ==
    (last.op = "read" /\ last.outcome = "ok" /\ is_aligned(last.pre)) =>
        /\ last.res = last.k
        /\ \A i \in 1..Len(last.buf) :
             last.bufAfter[i] = IF i <= last.k THEN data[last.pre.inner + i]
                                ELSE last.buf[i]
        /\ inner = last.pre.inner + last.k
        /\ bit_offset = last.pre.bit_offset
        /\ bit_buffer = last.pre.bit_buffer
        /\ is_aligned(self)

C9_Witness ==
    /\ last.op = "read" /\ last.outcome = "ok" /\ is_aligned(last.pre)
    /\ last.k >= 1 /\ Len(last.buf) > last.k
    /\ last.pre.bit_buffer # 0

\* C10: the bulk read never changes bit_offset, whatever its outcome; a call
\* that changes bit_offset is a read_bit, a read_bits or an align.
C10_ReadKeepsBitOffset ==
    /\ last.op = "read" => bit_offset = last.pre.bit_offset
    /\ bit_offset # last.pre.bit_offset => last.op \in {"read_bit", "read_bits", "align"}

C10_Witness ==
    /\ last.op = "read" /\ last.outcome = "ok"
    /\ last.pre.bit_offset > 0 /\ last.k >= 1

\* C11: get_mut panics exactly when the reader is unaligned and succeeds
\* exactly when it is aligned; get_ref and get_mut_unchecked succeed in every
\* state; none of the three changes bit_offset, bit_buffer or the source
\* position.
C11_CheckedAccessNeedsAlignment ==
    /\ last.op = "get_mut" =>
         /\ last.outcome = "panic" <=> ~is_aligned(last.pre)
         /\ last.outcome = "ok" <=> is_aligned(last.pre)
    /\ last.op \in {"get_ref", "get_mut_unchecked"} => last.outcome = "ok"
    /\ last.op \in {"get_ref", "get_mut", "get_mut_unchecked"} =>
         /\ self = last.pre
         /\ last.outcome = "ok" => last.res = last.pre.inner

C11_Witness == last.op = "get_mut" /\ ~is_aligned(last.pre) /\ last.outcome = "panic"

\* C12: when into_inner follows nothing but read_bit, read_bits and bulk
\* read calls on a fresh reader, the bits taken from the source and not
\* handed to the caller are fewer than 8 and are the unread bits of the
\* lookahead byte.
C12_UnwrapLosesAtMostPartialByte ==
    (last.op = "into_inner" /\ delivered >= 0) =>
        LET lost == 8 * last.res - delivered
        IN /\ lost >= 0 /\ lost < 8
           /\ lost = (8 - bit_offset) % 8
           /\ bit_offset > 0 => bit_buffer = data[inner]

\* C13: after align() the reader is aligned, and an align() that directly
\* follows another leaves bit_offset, bit_buffer and the source position as it
\* found them.
C13_AlignIdempotent ==
    last.op = "align" =>
        /\ is_aligned(self)
        /\ bit_offset = 0
        /\ last.alignFrom >= 0 => self = last.pre

C13_Witness == last.op = "align" /\ last.alignFrom > 0 /\ inner > 0

\* The first n bits of a source byte as booleans in reading order.
FirstBits(e, byte, n) ==
    [i \in 1..n |-> Bit(byte, IF e = "BE" THEN 8 - i ELSE i - 1) = 1]

\* The booleans the last read_bit or read_bits handed to the caller.
Returned ==
    IF last.op = "read_bit" THEN <<last.bit>> ELSE BitsOf(E, last.res, last.count)

\* C15: align() calls nothing in the source and leaves its position alone; the
\* read_bit or read_bits that follows fetches one fresh byte and returns the
\* first bits of the next unconsumed source byte.
C15_AlignDiscardsWithoutIO ==
    /\ last.op = "align" => (inner = last.pre.inner /\ last.reads = 0)
    /\ (last.op \in {"read_bit", "read_bits"} /\ last.alignFrom >= 0
          /\ last.count <= 8 /\ last.fault = 0 /\ last.pre.inner < Len(data)) =>
         /\ last.outcome = "ok"
         /\ last.reads = 1
         /\ inner = last.pre.inner + 1
         /\ Returned = FirstBits(E, data[last.pre.inner + 1], last.count)

C15_Witness ==
    /\ last.op = "read_bits" /\ last.alignFrom > 0 /\ last.outcome = "ok"
    /\ last.count \in 1..8

\* n successive read_bits(8) calls from reader s, none failing by injection:
\* the reader afterwards, the bytes returned, and whether all succeeded.
RECURSIVE ByteRun(_, _)
ByteRun(s, n) ==
    IF n = 0 THEN [self |-> s, bytes |-> <<>>, ok |-> TRUE]
    ELSE LET r == read_bits(s, 8, 0)
         IN IF r.outcome # "ok" THEN [self |-> r.self, bytes |-> <<>>, ok |-> FALSE]
            ELSE LET rest == ByteRun(r.self, n - 1)
                 IN [self |-> rest.self, bytes |-> <<r.res>> \o rest.bytes, ok |-> rest.ok]

\* The bit stream ahead of reader s over the next n source bytes: the unread
\* bits of the lookahead byte, then the bits of each source byte, in reading order.
RECURSIVE SourceBits(_, _)
SourceBits(pos, n) ==
    IF n = 0 THEN <<>> ELSE FirstBits(E, data[pos + 1], 8) \o SourceBits(pos + 1, n - 1)

StreamBits(s, n) ==
    SubSeq(FirstBits(E, s.bit_buffer, 8), s.bit_offset + 1, 8) \o SourceBits(s.inner, n)

\* C14: an unaligned bulk read that fills its whole buffer of n bytes gives
\* what n read_bits(8) calls give: byte i is the i-th result, the next 8 bits
\* of the bit stream in convention order, and bit_offset, bit_buffer and the
\* source position end the same.
C14_FullUnalignedReadIsReadBits8 ==
    (last.op = "read" /\ last.outcome = "ok" /\ ~is_aligned(last.pre)
       /\ last.k = Len(last.buf)) =>
        LET n == Len(last.buf)
            run == ByteRun(last.pre, n)
            stream == StreamBits(last.pre, n)
        IN /\ run.ok
           /\ last.bufAfter = run.bytes
           /\ \A i \in 1..n :
                BitsOf(E, last.bufAfter[i], 8) = SubSeq(stream, 8 * i - 7, 8 * i)
           /\ self = run.self
           /\ bit_offset = last.pre.bit_offset

C14_Witness ==
    /\ last.op = "read" /\ last.outcome = "ok" /\ ~is_aligned(last.pre)
    /\ last.k = Len(last.buf) /\ last.k >= 2

\* C16: bit_offset is in 0..7 in every state; a fresh reader has bit_offset 0
\* and new() has called nothing in the source.
C16_BitOffsetInRange ==
    /\ bit_offset \in 0..7
    /\ last.op = "new" => (bit_offset = 0 /\ inner = 0 /\ last.reads = 0)

C16_Witness == last.op = "read_bit" /\ last.outcome = "ok" /\ last.pre.bit_offset = 7

\* C17: a read_bit or read_bits (count <= 8) call takes at most one byte from
\* the source: a call that fetches on aligned entry fetches no second byte,
\* and an unaligned call fetches only when bit_offset + count > 8.
C17_AtMostOneFetchPerCall ==
    (last.op \in {"read_bit", "read_bits"} /\ last.count <= 8) =>
        /\ last.reads <= 1
        /\ inner - last.pre.inner <= 1
        /\ (~is_aligned(last.pre) /\ last.reads >= 1) =>
             last.pre.bit_offset + last.count > 8

C17_Witness ==
    /\ last.op = "read_bits" /\ last.outcome = "ok"
    /\ ~is_aligned(last.pre) /\ last.pre.bit_offset + last.count = 8

\* A byte with its 8 bits in reverse order, and a value with its low c bits
\* in reverse order.
Rev8(b) ==
    LET t(i) == Bit(b, i) * Pow2(7 - i)
    IN t(0) + t(1) + t(2) + t(3) + t(4) + t(5) + t(6) + t(7)

RevLow(v, c) ==
    LET t(i) == IF i < c THEN Bit(v, i) * Pow2(c - 1 - i) ELSE 0
    IN t(0) + t(1) + t(2) + t(3) + t(4) + t(5) + t(6) + t(7)

Other(e) == IF e = "BE" THEN "LE" ELSE "BE"

\* The reader of the other convention over the bit-reversed bytes.
MirrorData == [i \in 1..Len(data) |-> Rev8(data[i])]

Mirror(s) == [s EXCEPT !.bit_buffer = Rev8(@)]

\* n successive read_bit calls of a BitReader<e, _> over d, from reader s.
RECURSIVE BitRunOn(_, _, _, _)
BitRunOn(e, d, s, n) ==
    IF n = 0 THEN <<>>
    ELSE LET r == read_bit_on(e, d, s, 0)
         IN IF r.outcome # "ok" THEN <<>>
            ELSE <<r.bit>> \o BitRunOn(e, d, r.self, n - 1)

\* C18: the reader of the other convention over the bit-reversed bytes
\* returns the same booleans from read_bit and, from read_bits(count) with
\* count in 1..8, the result reversed within its low count bits; the two
\* readers stay mirror images of each other.
C18_ConventionsAreMirrorImages ==
    /\ fresh => bits = BitRunOn(Other(E), MirrorData, new, Len(bits))
    /\ (last.op = "read_bit") =>
         LET m == read_bit_on(Other(E), MirrorData, Mirror(last.pre), last.fault)
         IN /\ m.outcome = last.outcome
            /\ m.bit = last.bit
            /\ m.self = Mirror(self)
    /\ (last.op = "read_bits" /\ last.count \in 1..8) =>
         LET m == read_bits_on(Other(E), MirrorData, Mirror(last.pre), last.count, last.fault)
         IN /\ m.outcome = last.outcome
            /\ m.res = RevLow(last.res, last.count)
            /\ m.self = Mirror(self)

C18_Witness ==
    /\ last.op = "read_bits" /\ last.outcome = "ok" /\ E = "BE"
    /\ last.pre.bit_offset > 0
    /\ last.pre.bit_offset + last.count > 8
    /\ last.res # RevLow(last.res, last.count)

====
